---- MODULE Spec2Model ----
(***************************************************************************)
(* Model of the infrastructure monitoring workflow (main.py, nodes.py).    *)
(*                                                                         *)
(* Units.  Every float gauge is an integer count of thousandths of its     *)
(* unit (cpu_usage 75 % is 75000, latency_ms 250 ms is 250000), except     *)
(* error_rate, an integer count of 1/100000 (0.05 is 5000).  round(x, 2)   *)
(* on a thousandths value and round(x, 4) on an error_rate value are both  *)
(* "round to a multiple of 10".  Fields of a snapshot that no node reads   *)
(* (disk_usage, network_*, thread_count, ...) and the free-text            *)
(* description of an anomaly are left out.                                 *)
(***************************************************************************)
EXTENDS Integers, Sequences, FiniteSets, TLC

VARIABLES rapport, float_ties, pc, state, insights, anomaly_map, idx, error

vars == <<rapport, float_ties, pc, state, insights, anomaly_map, idx, error>>

\* Longest snapshot sequence of rapport.json that is explored.
MaxLen == 3

None == [isNone |-> TRUE]

Services == {"database", "api_gateway", "cache"}

Statuses == {"online", "degraded", "offline"}

Metrics == <<"cpu_usage", "memory_usage", "latency_ms", "error_rate",
             "temperature_celsius", "io_wait">>

THRESHOLDS ==
  [cpu_usage           |-> [high |-> 85000,  medium |-> 75000],
   memory_usage        |-> [high |-> 80000,  medium |-> 70000],
   latency_ms          |-> [high |-> 250000, medium |-> 180000],
   error_rate          |-> [high |-> 5000,   medium |-> 2000],
   temperature_celsius |-> [high |-> 75000,  medium |-> 65000],
   io_wait             |-> [high |-> 10000,  medium |-> 7000]]

InputData(cpu, mem, lat, err, temp, io, up, svc) ==
  [cpu_usage |-> cpu, memory_usage |-> mem, latency_ms |-> lat,
   error_rate |-> err, temperature_celsius |-> temp, io_wait |-> io,
   uptime_seconds |-> up, service_status |-> svc]

Anomaly(m, v, t, s) ==
  [metric |-> m, value |-> v, threshold |-> t, severity |-> s]

Insights(avg, maxcpu, maxmem, err, up) ==
  [average_latency_ms |-> avg, max_cpu_usage |-> maxcpu,
   max_memory_usage |-> maxmem, error_rate |-> err, uptime_seconds |-> up]

ServiceStatusSummary(on, deg, off) ==
  [online |-> on, degraded |-> deg, offline |-> off]

OutputData(ins, anoms, recs, summary) ==
  [insights |-> ins, anomalies |-> anoms, recommendations |-> recs,
   service_status_summary |-> summary]

(***************************************************************************)
(* The initial GraphState handed to app.invoke.                            *)
(***************************************************************************)
InitialState ==
  [raw_data |-> <<>>, parsed_data |-> <<>>, insights |-> None,
   anomalies |-> <<>>, recommendations |-> <<>>,
   service_status_summary |-> None, output |-> None]

(***************************************************************************)
(* round(num/den, 2) on thousandths (round(.., 4) on error_rate units):    *)
(* the multiple of 10 nearest to num/den; unit is the number of model      *)
(* units in 1.0 (1000, or 100000 for error_rate).  Python rounds the       *)
(* binary float correctly.  An exact decimal tie whose value is a binary   *)
(* fraction (100.125) is held exactly by the float and goes to the even    *)
(* neighbour; any other tie (100.135) is decided by the side on which the  *)
(* nearest float lies, which float_ties fixes for the run.  The result is  *)
(* a set with one element.                                                 *)
(***************************************************************************)
RECURSIVE OddPart(_)
OddPart(unit) == IF unit % 2 = 0 THEN OddPart(unit \div 2) ELSE unit

round(num, den, unit) ==
  LET lo == (num \div (10 * den)) * 10
      nearest ==
        {r \in {lo, lo + 10} :
           LET diff == IF den * r >= num THEN den * r - num ELSE num - den * r
           IN  2 * diff <= 10 * den}
  IN  IF nearest # {lo, lo + 10} THEN nearest
      ELSE IF (num \div den) % OddPart(unit) = 0
           THEN {r \in nearest : (r \div 10) % 2 = 0}
           ELSE IF float_ties = "up" THEN {lo + 10} ELSE {lo}

RECURSIVE sum(_)
sum(xs) == IF xs = <<>> THEN 0 ELSE Head(xs) + sum(Tail(xs))

max(xs) == CHOOSE x \in {xs[i] : i \in DOMAIN xs} :
             \A i \in DOMAIN xs : xs[i] <= x

\* statistics.mean as the exact fraction <<numerator, denominator>>
mean(xs) == <<sum(xs), Len(xs)>>

latencies(data) == [i \in DOMAIN data |-> data[i].latency_ms]

cpu_usages(data) == [i \in DOMAIN data |-> data[i].cpu_usage]

memory_usages(data) == [i \in DOMAIN data |-> data[i].memory_usage]

error_rates(data) == [i \in DOMAIN data |-> data[i].error_rate]

\* Variant of average_latency_ms: the mean cut off after 2 decimals.
average_latency_ms_Truncated(data) ==
  {10 * (sum(latencies(data)) \div (10 * Len(data)))}

average_latency_ms(data) ==
  round(mean(latencies(data))[1], mean(latencies(data))[2], 1000)

\* Variant of uptime_seconds: the largest uptime of the sequence.
uptime_seconds_Max(data) ==
  max([i \in DOMAIN data |-> data[i].uptime_seconds])

uptime_seconds(data) == data[Len(data)].uptime_seconds

\* The Insights(...) values analysis_node can build from a non-empty data.
ComputeInsights(data) ==
  {Insights(avg, maxcpu, maxmem, err, uptime_seconds(data)) :
     avg \in average_latency_ms(data),
     maxcpu \in round(max(cpu_usages(data)), 1, 1000),
     maxmem \in round(max(memory_usages(data)), 1, 1000),
     err \in round(mean(error_rates(data))[1], mean(error_rates(data))[2],
                   100000)}

\* Variant of InsightsError: max(cpu_usages) evaluated before the mean.
InsightsError_MaxFirst(data) ==
  IF data = <<>> THEN "ValueError" ELSE "none"

\* The exception raised while the Insights arguments are evaluated:
\* statistics.mean(latencies) comes first and raises on an empty list.
InsightsError(data) ==
  IF data = <<>> THEN "StatisticsError" ELSE "none"

(***************************************************************************)
(* anomaly_map is a dict, which keeps insertion order: a sequence of       *)
(* Anomaly records, at most one per key.                                   *)
(***************************************************************************)
Contains(map, key) == \E i \in DOMAIN map : map[i].metric = key

GetItem(map, key) == map[CHOOSE i \in DOMAIN map : map[i].metric = key]

\* Variant of SetItem: a list append instead of a keyed store.
SetItem_AlwaysAppend(map, key, rec) == Append(map, rec)

\* Variant of SetItem: the key is deleted and inserted again.
SetItem_MoveToEnd(map, key, rec) ==
  Append(SelectSeq(map, LAMBDA a : a.metric # key), rec)

\* map[key] = rec: an existing key keeps its position, a new one goes last.
SetItem(map, key, rec) ==
  IF Contains(map, key)
  THEN [i \in DOMAIN map |-> IF map[i].metric = key THEN rec ELSE map[i]]
  ELSE Append(map, rec)

\* Variant of CpuRule: the medium branch stores its record like the high
\* branch does, whenever the value is greater or no record exists.
CpuRule_MediumOverwrites(map, entry) ==
  IF entry.cpu_usage > THRESHOLDS["cpu_usage"]["high"]
  THEN IF \/ ~Contains(map, "cpu_usage")
          \/ entry.cpu_usage > GetItem(map, "cpu_usage").value
       THEN SetItem(map, "cpu_usage",
                    Anomaly("cpu_usage", entry.cpu_usage,
                            THRESHOLDS["cpu_usage"]["high"], "high"))
       ELSE map
  ELSE IF entry.cpu_usage > THRESHOLDS["cpu_usage"]["medium"]
       THEN SetItem(map, "cpu_usage",
                    Anomaly("cpu_usage", entry.cpu_usage,
                            THRESHOLDS["cpu_usage"]["medium"], "medium"))
       ELSE map

\* Variant of CpuRule: the medium record carries the high threshold.
CpuRule_MediumWithHighThreshold(map, entry) ==
  IF entry.cpu_usage > THRESHOLDS["cpu_usage"]["high"]
  THEN IF \/ ~Contains(map, "cpu_usage")
          \/ entry.cpu_usage > GetItem(map, "cpu_usage").value
       THEN SetItem(map, "cpu_usage",
                    Anomaly("cpu_usage", entry.cpu_usage,
                            THRESHOLDS["cpu_usage"]["high"], "high"))
       ELSE map
  ELSE IF entry.cpu_usage > THRESHOLDS["cpu_usage"]["medium"]
       THEN IF ~Contains(map, "cpu_usage")
            THEN SetItem(map, "cpu_usage",
                         Anomaly("cpu_usage", entry.cpu_usage,
                                 THRESHOLDS["cpu_usage"]["high"], "medium"))
            ELSE map
       ELSE map

CpuRule(map, entry) ==
  IF entry.cpu_usage > THRESHOLDS["cpu_usage"]["high"]
  THEN IF \/ ~Contains(map, "cpu_usage")
          \/ entry.cpu_usage > GetItem(map, "cpu_usage").value
       THEN SetItem(map, "cpu_usage",
                    Anomaly("cpu_usage", entry.cpu_usage,
                            THRESHOLDS["cpu_usage"]["high"], "high"))
       ELSE map
  ELSE IF entry.cpu_usage > THRESHOLDS["cpu_usage"]["medium"]
       THEN IF ~Contains(map, "cpu_usage")
            THEN SetItem(map, "cpu_usage",
                         Anomaly("cpu_usage", entry.cpu_usage,
                                 THRESHOLDS["cpu_usage"]["medium"], "medium"))
            ELSE map
       ELSE map

\* Variant of MemoryRule: every breach overwrites the record.
MemoryRule_LastBreachWins(map, entry) ==
  IF entry.memory_usage > THRESHOLDS["memory_usage"]["high"]
  THEN SetItem(map, "memory_usage",
               Anomaly("memory_usage", entry.memory_usage,
                       THRESHOLDS["memory_usage"]["high"], "high"))
  ELSE map

MemoryRule(map, entry) ==
  IF entry.memory_usage > THRESHOLDS["memory_usage"]["high"]
  THEN IF \/ ~Contains(map, "memory_usage")
          \/ entry.memory_usage > GetItem(map, "memory_usage").value
       THEN SetItem(map, "memory_usage",
                    Anomaly("memory_usage", entry.memory_usage,
                            THRESHOLDS["memory_usage"]["high"], "high"))
       ELSE map
  ELSE map

\* Variant of LatencyRule: the threshold itself already triggers.
LatencyRule_AtThreshold(map, entry) ==
  IF entry.latency_ms >= THRESHOLDS["latency_ms"]["high"]
  THEN IF \/ ~Contains(map, "latency_ms")
          \/ entry.latency_ms > GetItem(map, "latency_ms").value
       THEN SetItem(map, "latency_ms",
                    Anomaly("latency_ms", entry.latency_ms,
                            THRESHOLDS["latency_ms"]["high"], "high"))
       ELSE map
  ELSE map

LatencyRule(map, entry) ==
  IF entry.latency_ms > THRESHOLDS["latency_ms"]["high"]
  THEN IF \/ ~Contains(map, "latency_ms")
          \/ entry.latency_ms > GetItem(map, "latency_ms").value
       THEN SetItem(map, "latency_ms",
                    Anomaly("latency_ms", entry.latency_ms,
                            THRESHOLDS["latency_ms"]["high"], "high"))
       ELSE map
  ELSE map

ErrorRateRule(map, entry) ==
  IF entry.error_rate > THRESHOLDS["error_rate"]["high"]
  THEN IF \/ ~Contains(map, "error_rate")
          \/ entry.error_rate > GetItem(map, "error_rate").value
       THEN SetItem(map, "error_rate",
                    Anomaly("error_rate", entry.error_rate,
                            THRESHOLDS["error_rate"]["high"], "high"))
       ELSE map
  ELSE map

TemperatureRule(map, entry) ==
  IF entry.temperature_celsius > THRESHOLDS["temperature_celsius"]["high"]
  THEN IF \/ ~Contains(map, "temperature_celsius")
          \/ entry.temperature_celsius
               > GetItem(map, "temperature_celsius").value
       THEN SetItem(map, "temperature_celsius",
                    Anomaly("temperature_celsius", entry.temperature_celsius,
                            THRESHOLDS["temperature_celsius"]["high"], "high"))
       ELSE map
  ELSE map

\* Variant of IoWaitRule: labelled like the other high-threshold rules.
IoWaitRule_SeverityHigh(map, entry) ==
  IF entry.io_wait > THRESHOLDS["io_wait"]["high"]
  THEN IF \/ ~Contains(map, "io_wait")
          \/ entry.io_wait > GetItem(map, "io_wait").value
       THEN SetItem(map, "io_wait",
                    Anomaly("io_wait", entry.io_wait,
                            THRESHOLDS["io_wait"]["high"], "high"))
       ELSE map
  ELSE map

IoWaitRule(map, entry) ==
  IF entry.io_wait > THRESHOLDS["io_wait"]["high"]
  THEN IF \/ ~Contains(map, "io_wait")
          \/ entry.io_wait > GetItem(map, "io_wait").value
       THEN SetItem(map, "io_wait",
                    Anomaly("io_wait", entry.io_wait,
                            THRESHOLDS["io_wait"]["high"], "medium"))
       ELSE map
  ELSE map

\* One iteration of "for entry in data": the six rules in source order.
ScanEntry(map, entry) ==
  IoWaitRule(
    TemperatureRule(
      ErrorRateRule(
        LatencyRule(
          MemoryRule(
            CpuRule(map, entry), entry), entry), entry), entry), entry)

(***************************************************************************)
(* Service status aggregation.                                             *)
(***************************************************************************)
\* status_tracker after the accumulation loop
StatusTracker(data) ==
  [st \in Statuses |->
     {svc \in Services : \E i \in DOMAIN data : data[i].service_status[svc] = st}]

\* Variant of RemoveDuplicates: the degraded pass is missing.
RemoveDuplicates_OfflineOnly(tracker) ==
  IF tracker["offline"] # {}
  THEN [tracker EXCEPT !["degraded"] = @ \ tracker["offline"],
                       !["online"] = @ \ tracker["offline"]]
  ELSE tracker

\* status_tracker after the two discard passes
RemoveDuplicates(tracker) ==
  LET afterOffline ==
        IF tracker["offline"] # {}
        THEN [tracker EXCEPT !["degraded"] = @ \ tracker["offline"],
                             !["online"] = @ \ tracker["offline"]]
        ELSE tracker
  IN  IF afterOffline["degraded"] # {}
      THEN [afterOffline EXCEPT !["online"] = @ \ afterOffline["degraded"]]
      ELSE afterOffline

\* Position of a service name in lexicographic order
NameRank == [svc \in Services |->
               CASE svc = "api_gateway" -> 1
                 [] svc = "cache" -> 2
                 [] svc = "database" -> 3]

\* sorted(list(S)) for a set of service names
sorted(S) ==
  LET ranks == {NameRank[svc] : svc \in S}
      nth(k) == CHOOSE svc \in S :
                  Cardinality({r \in ranks : r < NameRank[svc]}) = k - 1
  IN  [k \in 1..Cardinality(S) |-> nth(k)]

ResolveServiceStatus(data) ==
  LET tracker == RemoveDuplicates(StatusTracker(data))
  IN  ServiceStatusSummary(sorted(tracker["online"]),
                           sorted(tracker["degraded"]),
                           sorted(tracker["offline"]))

(***************************************************************************)
(* Contents of rapport.json that are explored: three families of snapshot  *)
(* sequences, one exercising the threshold rules, one the insights and one *)
(* the service statuses.                                                   *)
(***************************************************************************)
AllOnline == [svc \in Services |-> "online"]

\* Every gauge exactly at its trigger cutoff
AtCutoff ==
  InputData(75000, 80000, 250000, 5000, 75000, 10000, 10000, AllOnline)

AnomalySnapshots ==
  {AtCutoff,
   InputData(50000, 60000, 100000, 1000, 60000, 3000, 10000, AllOnline),
   InputData(90000, 85000, 300000, 8000, 80000, 12000, 10000, AllOnline),
   InputData(95000, 90000, 400000, 9000, 90000, 15000, 10000, AllOnline)}
  \cup {[AtCutoff EXCEPT !.cpu_usage = v] :
          v \in {80000, 82000, 85000, 90000, 95000}}
  \cup {[AtCutoff EXCEPT !.memory_usage = 85000],
        [AtCutoff EXCEPT !.latency_ms = 300000],
        [AtCutoff EXCEPT !.error_rate = 8000],
        [AtCutoff EXCEPT !.temperature_celsius = 80000],
        [AtCutoff EXCEPT !.io_wait = 12000]}

InsightSnapshots ==
  {[AtCutoff EXCEPT !.latency_ms = lat, !.uptime_seconds = up] :
     lat \in {100000, 100125, 100126, 100135}, up \in {9000, 10000, 11800}}

ServiceMaps ==
  {f \in [Services -> Statuses] :
     Cardinality({svc \in Services : f[svc] # "online"}) <= 1}
  \cup {[svc \in Services |-> "degraded"], [svc \in Services |-> "offline"],
        [database |-> "offline", api_gateway |-> "online", cache |-> "degraded"]}

ServiceSnapshots == {[AtCutoff EXCEPT !.service_status = f] : f \in ServiceMaps}

SeqsUpTo(S) == UNION {[1..n -> S] : n \in 0..MaxLen}

Reports ==
  SeqsUpTo(AnomalySnapshots) \cup SeqsUpTo(InsightSnapshots)
    \cup SeqsUpTo(ServiceSnapshots)

\* Recommendation lists the external LLM call may return (ids only)
LlmResponses == {<<>>, <<"rec-001", "rec-002", "rec-003">>}

Init ==
  /\ rapport \in Reports
  /\ float_ties \in {"down", "up"}
  /\ pc = "ingestion"
  /\ state = InitialState
  /\ insights = None
  /\ anomaly_map = <<>>
  /\ idx = 0
  /\ error = "none"

\* Variant of ingestion_node: the edge out of ingestion leads past analysis.
ingestion_node_SkipsAnalysis ==
  /\ pc = "ingestion"
  /\ state' = [state EXCEPT !.raw_data = rapport, !.parsed_data = rapport]
  /\ pc' = "llm_enrichment"
  /\ UNCHANGED <<rapport, float_ties, insights, anomaly_map, idx, error>>

\* Node 1: load rapport.json and parse every entry.
ingestion_node ==
  /\ pc = "ingestion"
  /\ state' = [state EXCEPT !.raw_data = rapport, !.parsed_data = rapport]
  /\ pc' = "analysis"
  /\ UNCHANGED <<rapport, float_ties, insights, anomaly_map, idx, error>>

\* Variant of analysis_raise: the exception is caught and logged, and the
\* node returns the state as it is.
analysis_raise_Suppressed ==
  /\ pc = "analysis"
  /\ InsightsError(state.parsed_data) # "none"
  /\ error' = InsightsError(state.parsed_data)
  /\ pc' = "llm_enrichment"
  /\ UNCHANGED <<rapport, float_ties, state, insights, anomaly_map, idx>>

\* Node 2, building Insights raises: the exception leaves the workflow.
analysis_raise ==
  /\ pc = "analysis"
  /\ InsightsError(state.parsed_data) # "none"
  /\ error' = InsightsError(state.parsed_data)
  /\ pc' = "failed"
  /\ UNCHANGED <<rapport, float_ties, state, insights, anomaly_map, idx>>

\* Node 2, up to the start of the scan: insights computed, empty dedup map.
analysis_insights ==
  /\ pc = "analysis"
  /\ InsightsError(state.parsed_data) = "none"
  /\ insights' \in ComputeInsights(state.parsed_data)
  /\ anomaly_map' = <<>>
  /\ idx' = 1
  /\ pc' = "scan"
  /\ UNCHANGED <<rapport, float_ties, state, error>>

\* Node 2, one iteration of the scan over the snapshots.
analysis_scan ==
  /\ pc = "scan"
  /\ idx <= Len(state.parsed_data)
  /\ anomaly_map' = ScanEntry(anomaly_map, state.parsed_data[idx])
  /\ idx' = idx + 1
  /\ UNCHANGED <<rapport, float_ties, pc, state, insights, error>>

\* Variant of analysis_return: the new anomalies are added to the stored
\* list instead of replacing it.
analysis_return_Accumulates ==
  /\ pc = "scan"
  /\ idx > Len(state.parsed_data)
  /\ state' = [state EXCEPT
                 !.insights = insights,
                 !.anomalies = state.anomalies \o anomaly_map,
                 !.service_status_summary =
                    ResolveServiceStatus(state.parsed_data)]
  /\ insights' = None
  /\ anomaly_map' = <<>>
  /\ idx' = 0
  /\ pc' = "llm_enrichment"
  /\ UNCHANGED <<rapport, float_ties, error>>

\* Variant of analysis_return: the node also resets the fields of the later
\* nodes.
analysis_return_ClearsDownstream ==
  /\ pc = "scan"
  /\ idx > Len(state.parsed_data)
  /\ state' = [state EXCEPT
                 !.insights = insights,
                 !.anomalies = anomaly_map,
                 !.service_status_summary =
                    ResolveServiceStatus(state.parsed_data),
                 !.recommendations = <<>>,
                 !.output = None]
  /\ insights' = None
  /\ anomaly_map' = <<>>
  /\ idx' = 0
  /\ pc' = "llm_enrichment"
  /\ UNCHANGED <<rapport, float_ties, error>>

\* Node 2, after the scan: service statuses resolved, the three results
\* stored in the state; the locals die with the call.
analysis_return ==
  /\ pc = "scan"
  /\ idx > Len(state.parsed_data)
  /\ state' = [state EXCEPT
                 !.insights = insights,
                 !.anomalies = anomaly_map,
                 !.service_status_summary =
                    ResolveServiceStatus(state.parsed_data)]
  /\ insights' = None
  /\ anomaly_map' = <<>>
  /\ idx' = 0
  /\ pc' = "llm_enrichment"
  /\ UNCHANGED <<rapport, float_ties, error>>

\* Node 3: the recommendations come from the external LLM.
llm_enrichment_node ==
  /\ pc = "llm_enrichment"
  /\ \E recs \in LlmResponses :
       state' = [state EXCEPT !.recommendations = recs]
  /\ pc' = "generate_output"
  /\ UNCHANGED <<rapport, float_ties, insights, anomaly_map, idx, error>>

\* Node 4: the report bundles what the earlier nodes stored.
output_node ==
  /\ pc = "generate_output"
  /\ state' = [state EXCEPT
                 !.output = OutputData(state.insights, state.anomalies,
                                       state.recommendations,
                                       state.service_status_summary)]
  /\ pc' = "END"
  /\ UNCHANGED <<rapport, float_ties, insights, anomaly_map, idx, error>>

Next ==
  \/ ingestion_node
  \/ analysis_raise
  \/ analysis_insights
  \/ analysis_scan
  \/ analysis_return
  \/ llm_enrichment_node
  \/ output_node

Spec == Init /\ [][Next]_vars

(***************************************************************************)
(* A caller that invokes analysis_node directly, as the unit tests do, and *)
(* hands it a state an earlier call returned: right after the first call,  *)
(* or after the whole workflow has filled recommendations and output.      *)
(***************************************************************************)
analysis_node_again ==
  /\ pc \in {"llm_enrichment", "END"}
  /\ pc' = "analysis"
  /\ UNCHANGED <<rapport, float_ties, state, insights, anomaly_map, idx, error>>

NextRerun == Next \/ analysis_node_again

SpecRerun == Init /\ [][NextRerun]_vars

(***************************************************************************)
(* Vocabulary of the properties.                                           *)
(***************************************************************************)
Data == state.parsed_data

\* analysis_node has returned: its results are in the state
AnalysisDone == pc \in {"llm_enrichment", "generate_output", "END"}

MetricSet == {Metrics[k] : k \in DOMAIN Metrics}

SingleThresholdMetrics == MetricSet \ {"cpu_usage"}

\* The value above which a metric produces an anomaly
Cutoff(m) ==
  IF m = "cpu_usage" THEN THRESHOLDS[m]["medium"] ELSE THRESHOLDS[m]["high"]

\* Snapshots among the first n whose metric m is strictly above the cutoff
Breaches(m, n) == {i \in 1..n : Data[i][m] > Cutoff(m)}

SetMax(S) == CHOOSE x \in S : \A y \in S : y <= x

SetMin(S) == CHOOSE x \in S : \A y \in S : x <= y

Records(seq) == {seq[i] : i \in DOMAIN seq}

OnePerMetric(seq) ==
  \A i, j \in DOMAIN seq : seq[i].metric = seq[j].metric => i = j

\* C1: at most one anomaly per metric name, in the returned list and in the
\* dedup map after every step of the scan.
C1_AtMostOnePerMetric ==
  /\ OnePerMetric(anomaly_map)
  /\ OnePerMetric(state.anomalies)

\* C1 witness: a finished analysis in which one metric was breached by
\* several snapshots and several metrics were breached.
C1_Witness ==
  /\ AnalysisDone
  /\ Len(state.anomalies) >= 2
  /\ \E m \in MetricSet : Cardinality(Breaches(m, Len(Data))) >= 2

RetainsMaximum(seq, n) ==
  \A m \in SingleThresholdMetrics :
    Breaches(m, n) # {} =>
      /\ \E a \in Records(seq) : a.metric = m
      /\ \A a \in Records(seq) :
           a.metric = m => a.value = SetMax({Data[i][m] : i \in Breaches(m, n)})

\* C2: for memory_usage, latency_ms, error_rate, temperature_celsius and
\* io_wait the retained anomaly carries the maximum of the metric over the
\* breaching snapshots, in the result and after every scanned prefix.
C2_SingleThresholdRetainsMax ==
  /\ pc = "scan" => RetainsMaximum(anomaly_map, idx - 1)
  /\ AnalysisDone => RetainsMaximum(state.anomalies, Len(Data))

\* C2 witness: a metric breached three times with the greatest value in the
\* middle, so that a later smaller breach and an earlier smaller one both
\* occur.
C2_Witness ==
  /\ AnalysisDone
  /\ Len(Data) = 3
  /\ \E m \in SingleThresholdMetrics :
       /\ Breaches(m, 3) = {1, 2, 3}
       /\ Data[2][m] > Data[1][m]
       /\ Data[2][m] > Data[3][m]

\* C3: the cpu_usage anomaly is the worst observation: highest severity
\* among the breaching snapshots, and the greatest value of that severity.
C3_CpuWorstObservation ==
  AnalysisDone /\ Breaches("cpu_usage", Len(Data)) # {} =>
    LET vals == {Data[i].cpu_usage : i \in Breaches("cpu_usage", Len(Data))}
        highs == {v \in vals : v > THRESHOLDS["cpu_usage"]["high"]}
    IN  \E a \in Records(state.anomalies) :
          /\ a.metric = "cpu_usage"
          /\ a.severity = (IF highs # {} THEN "high" ELSE "medium")
          /\ a.value = (IF highs # {} THEN SetMax(highs) ELSE SetMax(vals))

\* C4: a metric has an anomaly exactly when some snapshot is strictly above
\* its cutoff; a snapshot breaching all six gives six anomalies and no
\* breach gives the empty list.
C4_AnomalyIffBreach ==
  AnalysisDone =>
    /\ \A a \in Records(state.anomalies) : a.metric \in MetricSet
    /\ \A m \in MetricSet :
         (\E a \in Records(state.anomalies) : a.metric = m)
           <=> Breaches(m, Len(Data)) # {}
    /\ (\E i \in DOMAIN Data : \A m \in MetricSet : Data[i][m] > Cutoff(m))
         => Len(state.anomalies) = 6
    /\ (\A m \in MetricSet : Breaches(m, Len(Data)) = {})
         => state.anomalies = <<>>

\* C4 witness: six anomalies from a sequence that also holds a snapshot with
\* every gauge exactly at its cutoff.
C4_Witness ==
  /\ AnalysisDone
  /\ Len(state.anomalies) = 6
  /\ \E i \in DOMAIN Data : \A m \in MetricSet : Data[i][m] = Cutoff(m)

SeverityRule(a) ==
  /\ a.metric = "io_wait" => a.severity = "medium" /\ a.threshold = 10 * 1000
  /\ a.metric \in {"memory_usage", "latency_ms", "error_rate",
                   "temperature_celsius"} => a.severity = "high"
  /\ a.severity # "low"

\* C5: io_wait anomalies are medium with threshold 10; memory, latency,
\* error-rate and temperature anomalies are high; low is never emitted.
C5_Severities ==
  \A a \in Records(anomaly_map) \cup Records(state.anomalies) : SeverityRule(a)

\* C5 witness: a result holding an io_wait anomaly next to a memory anomaly.
C5_Witness ==
  /\ AnalysisDone
  /\ \E a, b \in Records(state.anomalies) :
       a.metric = "io_wait" /\ b.metric = "memory_usage"

EvalRank(m) == CHOOSE k \in DOMAIN Metrics : Metrics[k] = m

FirstBreach(m) == SetMin(Breaches(m, Len(Data)))

InFirstPopulatedOrder(seq) ==
  \A i, j \in DOMAIN seq :
    i < j =>
      LET a == seq[i].metric
          b == seq[j].metric
      IN  /\ Breaches(a, Len(Data)) # {}
          /\ Breaches(b, Len(Data)) # {}
          /\ \/ FirstBreach(a) < FirstBreach(b)
             \/ /\ FirstBreach(a) = FirstBreach(b)
                /\ EvalRank(a) < EvalRank(b)

\* C6: anomalies are listed by the snapshot that first breached the metric,
\* ties in the evaluation order cpu, memory, latency, error rate,
\* temperature, io_wait; a replacement keeps the position.
C6_FirstPopulatedOrder ==
  /\ InFirstPopulatedOrder(anomaly_map)
  /\ InFirstPopulatedOrder(state.anomalies)

\* C6 witness: a record that was replaced by a later, worse breach still
\* precedes a metric that comes before it in the evaluation order.
C6_Witness ==
  /\ AnalysisDone
  /\ \E i, j \in DOMAIN state.anomalies :
       /\ i < j
       /\ EvalRank(state.anomalies[i].metric) > EvalRank(state.anomalies[j].metric)
       /\ state.anomalies[i].value
            # Data[FirstBreach(state.anomalies[i].metric)][state.anomalies[i].metric]

Reported(svc, st) == \E i \in DOMAIN Data : Data[i].service_status[svc] = st

WorstReported(svc) ==
  IF Reported(svc, "offline") THEN "offline"
  ELSE IF Reported(svc, "degraded") THEN "degraded" ELSE "online"

Occurrences(seq, x) == Cardinality({k \in DOMAIN seq : seq[k] = x})

\* C7: every observed service is in exactly one output set, the one of its
\* worst reported status, and nothing else is in any set.
C7_ServiceInExactlyOneSet ==
  AnalysisDone =>
    LET summary == state.service_status_summary
    IN  /\ \A svc \in Services :
             \A st \in Statuses :
               Occurrences(summary[st], svc)
                 = (IF st = WorstReported(svc) THEN 1 ELSE 0)
        /\ \A st \in Statuses :
             \A k \in DOMAIN summary[st] :
               \E i \in DOMAIN Data : summary[st][k] \in DOMAIN Data[i].service_status

\* C7 witness: one service reported online, degraded and offline by three
\* snapshots while another stays online.
C7_Witness ==
  /\ AnalysisDone
  /\ \E svc \in Services : \A st \in Statuses : Reported(svc, st)
  /\ state.service_status_summary.online # <<>>

C9_UptimeOfLastSnapshot ==
  /\ pc = "scan" => insights.uptime_seconds = Data[Len(Data)].uptime_seconds
  /\ AnalysisDone =>
       state.insights.uptime_seconds = Data[Len(Data)].uptime_seconds

\* C9 witness: an earlier snapshot has a larger uptime than the last one.
C9_Witness ==
  /\ AnalysisDone
  /\ \E i \in DOMAIN Data : Data[i].uptime_seconds > Data[Len(Data)].uptime_seconds
  /\ \E i \in DOMAIN Data : Data[i].uptime_seconds < Data[Len(Data)].uptime_seconds

Distance(a, b) == IF a >= b THEN a - b ELSE b - a

LatencySet == {Data[i].latency_ms : i \in DOMAIN Data}

\* avg is a multiple of 0.01 at most 0.005 away from the exact mean
IsMeanRoundedTo2(avg) ==
  /\ avg % 10 = 0
  /\ 2 * Distance(Len(Data) * avg, sum(latencies(Data))) <= 10 * Len(Data)

\* C10 as stated: average_latency_ms is the mean rounded to 2 decimals, lies
\* within [min, max] of the latencies, and is the single value for length 1.
C10_AverageWithinMinMax ==
  AnalysisDone =>
    LET avg == state.insights.average_latency_ms
    IN  /\ IsMeanRoundedTo2(avg)
        /\ SetMin(LatencySet) <= avg
        /\ avg <= SetMax(LatencySet)
        /\ Len(Data) = 1 => avg = Data[1].latency_ms

\* C10 amended: average_latency_ms is the mean rounded to 2 decimals and lies
\* within [min, max] once both ends are rounded to 2 decimals (down for min,
\* up for max at most); for length 1 it is the single value rounded.
C10_AverageWithinRoundedMinMax ==
  AnalysisDone =>
    LET avg == state.insights.average_latency_ms
    IN  /\ IsMeanRoundedTo2(avg)
        /\ 10 * (SetMin(LatencySet) \div 10) <= avg
        /\ avg <= 10 * ((SetMax(LatencySet) + 9) \div 10)
        /\ Len(Data) = 1 =>
             /\ avg % 10 = 0
             /\ 2 * Distance(avg, Data[1].latency_ms) <= 10

\* C10 witness: several different latencies whose mean is not a multiple of
\* 0.01, so that rounding changed it.
C10_Witness ==
  /\ AnalysisDone
  /\ Cardinality(LatencySet) >= 2
  /\ Len(Data) * state.insights.average_latency_ms # sum(latencies(Data))

\* The state already holds the results of an earlier analysis_node call
HoldsEarlierResult == state.insights # None

AnalysisReturns == pc = "scan" /\ pc' = "llm_enrichment"

\* C11: analysis_node applied again to the state it returned stores the same
\* insights, the same anomaly list in the same order and the same service
\* status summary, whatever else the state holds by then.
C11_RerunYieldsSameResult ==
  [][AnalysisReturns /\ HoldsEarlierResult =>
       /\ state'.insights = state.insights
       /\ state'.anomalies = state.anomalies
       /\ state'.service_status_summary = state.service_status_summary]_vars

\* C11 witness: a second call is about to return; it ran on a state that
\* holds several anomalies, and its insights come from a rounded mean.
C11_Witness ==
  /\ pc = "scan"
  /\ idx > Len(Data)
  /\ HoldsEarlierResult
  /\ Len(state.anomalies) >= 2
  /\ Len(anomaly_map) >= 2
  /\ insights # None

InAnalysis == pc \in {"analysis", "scan"}

\* C13: a step of analysis_node leaves parsed_data (length, order and every
\* field of every snapshot), raw_data, recommendations and output as they
\* were; only insights, anomalies and service_status_summary may change.
C13_AnalysisFrame ==
  [][InAnalysis =>
       /\ state'.parsed_data = state.parsed_data
       /\ state'.raw_data = state.raw_data
       /\ state'.recommendations = state.recommendations
       /\ state'.output = state.output]_vars

\* C13 witness: analysis_node has returned on a state that already held
\* recommendations and an output report, and it stored anomalies.
C13_Witness ==
  /\ pc = "llm_enrichment"
  /\ state.recommendations # <<>>
  /\ state.output # None
  /\ state.anomalies # <<>>
  /\ state.parsed_data # <<>>

\* Snapshots among the first n with cpu_usage above 85
HighCpu(n) == {i \in 1..n : Data[i].cpu_usage > 85 * 1000}

\* Snapshots among the first n with 75 < cpu_usage <= 85
MediumCpu(n) ==
  {i \in 1..n : Data[i].cpu_usage > 75 * 1000 /\ Data[i].cpu_usage <= 85 * 1000}

StoredAsHigh(seq) ==
  \E a \in Records(seq) :
    a.metric = "cpu_usage" /\ a.severity = "high" /\ a.threshold = 85 * 1000

ThresholdMatches(a) ==
  /\ a.value > a.threshold
  /\ a.threshold =
       (CASE a.metric = "cpu_usage" ->
               (IF a.severity = "high" THEN 85 * 1000 ELSE 75 * 1000)
          [] a.metric = "memory_usage" -> 80 * 1000
          [] a.metric = "latency_ms" -> 250 * 1000
          [] a.metric = "error_rate" -> 5 * 1000
          [] a.metric = "temperature_celsius" -> 75 * 1000
          [] a.metric = "io_wait" -> 10 * 1000)
  /\ a.metric = "cpu_usage" => a.severity \in {"high", "medium"}

\* C16: in every state of the scan and in the result every stored anomaly
\* has a value strictly above its own threshold field, and that field is the
\* cutoff of the record's metric and severity.
C16_ValueAboveOwnThreshold ==
  \A a \in Records(anomaly_map) \cup Records(state.anomalies) :
    ThresholdMatches(a)

\* C16 witness: during the scan a medium cpu_usage record has been replaced
\* by a high one, next to a record of another metric.
C16_Witness ==
  /\ pc = "scan"
  /\ \E i \in MediumCpu(idx - 1) : \E j \in HighCpu(idx - 1) : i < j
  /\ StoredAsHigh(anomaly_map)
  /\ Len(anomaly_map) >= 2

\* Position of the node that pc is in, END last
NodeRank ==
  CASE pc = "ingestion" -> 1
    [] pc \in {"analysis", "scan"} -> 2
    [] pc = "llm_enrichment" -> 3
    [] pc = "generate_output" -> 4
    [] pc = "END" -> 5
    [] pc = "failed" -> 0

AnalysisResultsSet ==
  /\ state.insights # None
  /\ state.service_status_summary # None

\* What the workflow guarantees at each position
NodePreconditions ==
  /\ pc \in {"analysis", "scan"} =>
       state.parsed_data = rapport /\ state.raw_data = rapport
  /\ pc \in {"ingestion", "analysis", "scan"} =>
       state.insights = None /\ state.service_status_summary = None
  /\ pc \in {"llm_enrichment", "generate_output", "END"} => AnalysisResultsSet
  /\ pc # "END" => state.output = None
  /\ pc = "END" =>
       state.output = OutputData(state.insights, state.anomalies,
                                 state.recommendations,
                                 state.service_status_summary)

\* A node is entered only from the node before it, and never again
NodeOrderStep ==
  pc' # "failed" => NodeRank' \in {NodeRank, NodeRank + 1}

\* C14 as stated: every run of the workflow goes through ingestion, analysis,
\* llm_enrichment and generate_output and ends: a workflow that has stopped
\* has run all four nodes and built the report.
C14_EveryRunReachesEnd ==
  ~ENABLED Next => pc = "END" /\ state.output # None

\* C14 amended: the nodes run in the fixed order, each at most once and none
\* skipped, each node finds the fields of the earlier nodes set, the report
\* embeds exactly the stored values, every node that is entered can run, the
\* anomaly loop stays inside the sequence and returns when it is past its
\* end, nothing runs after END or a failure, and the only failure is the analysis of an
\* empty sequence.
C14_FixedNodeOrder ==
  /\ [](/\ NodePreconditions
        /\ pc \in {"ingestion", "analysis", "llm_enrichment", "generate_output"}
             => ENABLED Next
        /\ pc = "scan" => idx \in 1..(Len(Data) + 1)
        /\ pc = "scan" /\ idx > Len(Data) => ENABLED analysis_return
        /\ pc \in {"END", "failed"} => ~ENABLED Next
        /\ pc = "failed" => Data = <<>>)
  /\ [][NodeOrderStep]_vars

\* C14 witness: the workflow has ended with a report that embeds anomalies
\* and recommendations.
C14_Witness ==
  /\ pc = "END"
  /\ state.output.anomalies # <<>>
  /\ state.output.recommendations # <<>>
  /\ state.output.insights = state.insights

\* C15: when analysis_node fails the exception leaves the workflow: the
\* state is the one the node was called with, no later node runs, nothing is
\* retried, no recommendations and no report exist, and an empty sequence
\* never gets past the analysis.
C15_FailurePropagates ==
  /\ [][pc = "analysis" /\ pc' = "failed" => state' = state /\ error' # "none"]_vars
  /\ [][pc = "failed" => pc' = "failed" /\ state' = state]_vars
  /\ [](pc = "failed" =>
          /\ ~ENABLED Next
          /\ error # "none"
          /\ state.recommendations = <<>>
          /\ state.output = None
          /\ state.insights = InitialState.insights
          /\ state.anomalies = InitialState.anomalies
          /\ state.service_status_summary = InitialState.service_status_summary)
  /\ [](Data = <<>> /\ pc \notin {"ingestion", "analysis"} => pc = "failed")

\* C15 witness: the analysis has failed, ingestion had filled the state, and
\* the result fields are untouched.
C15_Witness ==
  /\ pc = "failed"
  /\ state.raw_data = rapport
  /\ state.insights = None
  /\ state.output = None

====
